---- MODULE Spec2Model ----
(***************************************************************************)
(* Club membership and leadership: the clubs and club_members tables and   *)
(* the HTTP handlers that write them (create club, claim, join, leave,     *)
(* add-leader, member role update / presidency transfer).                  *)
(*                                                                         *)
(* A handler is a sequence of awaited pool.query calls.  Between two       *)
(* awaits another request may run, so every handler is cut at the          *)
(* statements that read or write rows other requests write.  Reads of      *)
(* facts that never change once true (the club row exists, the user row    *)
(* exists) are taken together with the next statement, and the request's   *)
(* arrival and body validation are taken together with its first query.    *)
(*                                                                         *)
(* BEGIN / COMMIT are issued through pool.query like every other           *)
(* statement.  Either every statement of the block lands on the connection *)
(* that ran BEGIN, and the block's writes become visible together at       *)
(* COMMIT, or the statements land on other connections and each write is   *)
(* committed on its own.  Both outcomes are modelled.                      *)
(*                                                                         *)
(* The in-memory rate limiter (checkRateLimit, checkPostRateLimit and the  *)
(* periodic cleanup of their maps) is a second part of the state, with a   *)
(* clock.  Window lengths and limits are scaled down to a few ticks; the   *)
(* order of the three post windows and of their limits is kept.            *)
(*                                                                         *)
(* The browser's AuthProvider (React state, the MSAL account cache and the *)
(* steps of handleAuthSuccess) with the users table it registers into is a *)
(* third part.  DEMO_MODE comes from lib/demo-mode, so it is fixed when    *)
(* the application is built; both values are explored.                     *)
(***************************************************************************)
EXTENDS Integers, FiniteSets, Sequences, TLC

NumUsers == 3
Users == 1..NumUsers
ClubIds == {"c1"}
Slots == {"r1", "r2"}

NULL == 0
validRoles == {"member", "officer", "vice_president", "president"}
validLeaderRoles == {"officer", "vice_president"}
RoleInputs == validRoles \cup {"bogus"}
Emails == Users \cup {NULL}

(* rate limiter: limits and window lengths in ticks *)
MaxRequests == 2
WindowMs == 3
MinuteMax == 2
HourMax == 3
DayMax == 4
MinuteWindow == 2
HourWindow == 4
DayWindow == 7
MaxTime == 10
Identifiers == {"ip1"}

PostIds == {"p1"}
leadershipRoles == {"president", "vice_president", "officer"}
Kinds == {"minute", "hour", "day"}

VARIABLES clubs, club_members, req, pre

(* now: Date.now(); requestCounts, postRateLimits: the two maps;
   unswept: the two maps as they would be had the cleanup never run;
   opened: per kind of window, the windows the code opened that are still
   running, each with the calls allowed since it was opened;
   last: what the last call returned *)
(* the posts table: rows [id, club_id, user_id] *)
VARIABLES posts

VARIABLES now, requestCounts, postRateLimits, unswept, opened, last

(* AuthProvider: its React state under the source's names; accounts: the
   account MSAL has cached (NULL when none); dbUsers: the emails with a row in
   users; authPc: where handleAuthSuccess stands; registration: whether, in the
   current attempt, the upsert succeeded and the row was then read back *)
VARIABLES user, isAuthenticated, isLoading, hasProfile, isInteractionInProgress,
          isInitialized, DEMO_MODE, accounts, dbUsers, authPc, registration

clubVars == <<clubs, club_members, req, pre>>
limiterVars == <<now, requestCounts, postRateLimits, unswept, opened, last>>
authVars == <<user, isAuthenticated, isLoading, hasProfile, isInteractionInProgress,
              isInitialized, DEMO_MODE, accounts, dbUsers, authPc, registration>>
nonClubVars == <<limiterVars, authVars, posts>>
nonLimiterVars == <<clubVars, authVars, posts>>
nonAuthVars == <<clubVars, limiterVars, posts>>
nonDbVars == <<limiterVars, authVars>>
vars == <<clubVars, limiterVars, authVars, posts>>

NoClub == [exists |-> FALSE, is_claimed |-> FALSE, president_id |-> NULL]
NoSnap == [clubs |-> [c \in ClubIds |-> NoClub], club_members |-> {}, posts |-> {}]
Idle == [op |-> "idle", pc |-> "idle", clubId |-> "c1", by |-> NULL, target |-> NULL,
         role |-> "-", confirmed |-> TRUE, found |-> FALSE, status |-> 0, ui |-> "api",
         postId |-> "-"]

----
(* SQL statements on club_members *)

MemberRows(members, c, u) == {m \in members : m.club_id = c /\ m.user_id = u}

UpdateRole_OrInsert(members, c, u, role) ==
    {m \in members : ~(m.club_id = c /\ m.user_id = u)}
        \cup {[club_id |-> c, user_id |-> u, role |-> role]}

UpdateRole_AllRows(members, c, u, role) ==
    {IF m.club_id = c THEN [m EXCEPT !.role = role] ELSE m : m \in members}

UpdateRole(members, c, u, role) ==
    {IF m.club_id = c /\ m.user_id = u THEN [m EXCEPT !.role = role] ELSE m : m \in members}

UniqueViolation_Never(members, c, u) == FALSE

UniqueViolation(members, c, u) == MemberRows(members, c, u) # {}

InsertMember(members, c, u, role) ==
    members \cup {[club_id |-> c, user_id |-> u, role |-> role]}

UpsertMember_InsertOnly(members, c, u, role) == InsertMember(members, c, u, role)

UpsertMember(members, c, u, role) ==
    IF UniqueViolation(members, c, u)
    THEN UpdateRole(members, c, u, role)
    ELSE InsertMember(members, c, u, role)

DeleteMember_WholeClub(members, c, u) == {m \in members : m.club_id # c}

DeleteMember(members, c, u) == members \ MemberRows(members, c, u)

----
NoRecords == [i \in {} |-> NULL]
NoCall == [fn |-> "none", maxRequests |-> 0, allowed |-> TRUE, unsweptAllowed |-> TRUE,
           remaining |-> 0, remainingPost |-> [k \in Kinds |-> 0], resetTime |-> 0,
           status |-> 0, handled |-> FALSE,
           before |-> [k \in Kinds |-> 0], after |-> [k \in Kinds |-> 0]]

(* module load: both maps empty *)
LimiterInit ==
    /\ now = 0
    /\ requestCounts = NoRecords
    /\ postRateLimits = NoRecords
    /\ unswept = [requestCounts |-> NoRecords, postRateLimits |-> NoRecords]
    /\ opened = [k \in Kinds \cup {"general"} |-> {}]
    /\ last = NoCall

BerkeleyPrepEmails == {"student", "teacher"}
AccountEmails == BerkeleyPrepEmails \cup {"outsider"}
NoUser == "-"
DEMO_USER == "demo"
NotRegistered == [upserted |-> FALSE, readBack |-> FALSE]

(* useState initial values *)
AuthStart(demo, cached) ==
    /\ user = NoUser
    /\ isAuthenticated = FALSE
    /\ isLoading = TRUE
    /\ hasProfile = FALSE
    /\ isInteractionInProgress = FALSE
    /\ isInitialized = FALSE
    /\ DEMO_MODE = demo
    /\ accounts = cached
    /\ dbUsers = {}
    /\ authPc = "idle"
    /\ registration = NotRegistered

(* page load: the build has demo mode or not, the browser may hold a cached
   MSAL account *)
AuthInit == \E demo \in BOOLEAN, cached \in AccountEmails \cup {NoUser} : AuthStart(demo, cached)

(* no browser session *)
AuthInitLive == AuthStart(FALSE, NoUser)

ClubInit ==
    /\ clubs = [c \in ClubIds |-> NoClub]
    /\ club_members = {}
    /\ req = [r \in Slots |-> Idle]
    /\ pre = NoSnap
    /\ posts = {}

Init == ClubInit /\ LimiterInit /\ AuthInitLive

Snapshot(snap) ==
    IF snap THEN [clubs |-> clubs, club_members |-> club_members, posts |-> posts] ELSE NoSnap

Respond(r, rec, status) == req' = [req EXCEPT ![r] = [rec EXCEPT !.pc = "done", !.status = status]]

Goto(r, rec, pc) == req' = [req EXCEPT ![r] = [rec EXCEPT !.pc = pc]]

Free(r) == req[r].pc = "idle"

(* the response has been sent; the slot takes the next request *)
Release(r) ==
    /\ req[r].pc = "done"
    /\ req' = [req EXCEPT ![r] = Idle]
    /\ pre' = NoSnap
    /\ UNCHANGED <<clubs, club_members>>

(* POST /api/clubs: a new club starts unclaimed, with no president *)
CreateClub(c) ==
    /\ ~clubs[c].exists
    /\ clubs' = [clubs EXCEPT ![c] = [exists |-> TRUE, is_claimed |-> FALSE, president_id |-> NULL]]
    /\ UNCHANGED <<club_members, req, pre>>

----
(* POST /api/clubs/[id]/claim *)

ClaimClub_FlagOnly(cl, c, u) == [cl EXCEPT ![c].is_claimed = TRUE]

(* UPDATE clubs SET is_claimed = TRUE, president_id = $1 WHERE id = $2 *)
ClaimClub(cl, c, u) == [cl EXCEPT ![c].is_claimed = TRUE, ![c].president_id = u]

ConfirmationMissing_Never(confirmed) == FALSE

(* if (!confirmed) *)
ConfirmationMissing(confirmed) == ~confirmed

ClaimRefused_Never(cl, c) == FALSE

(* if (club.is_claimed) *)
ClaimRefused(cl, c) == cl[c].is_claimed

(* ui tells where the request came from: "api" for any client, "checked" or
   "unchecked" for the claim dialog with its confirmation checkbox in that state *)
ClaimArrive(r, snap, c, userId, confirmed, ui) ==
    /\ Free(r)
    /\ LET rec == [Idle EXCEPT !.op = "claim", !.clubId = c, !.by = userId,
                               !.confirmed = confirmed, !.ui = ui]
       IN  IF ConfirmationMissing(confirmed) THEN Respond(r, rec, 400)
           ELSE IF ~clubs[c].exists THEN Respond(r, rec, 404)
           ELSE IF ClaimRefused(clubs, c) THEN Respond(r, rec, 409)
           ELSE Goto(r, rec, "tx")
    /\ pre' = Snapshot(snap)
    /\ UNCHANGED <<clubs, club_members>>

ClaimStart(r, snap, c, userId, confirmed) == ClaimArrive(r, snap, c, userId, confirmed, "api")

DialogBlocks_Never(isConfirmed) == FALSE

(* if (!isConfirmed) { alert(...); return } *)
DialogBlocks(isConfirmed) == ~isConfirmed

(* claim-club-dialog.tsx handleClaim: nothing is sent while the checkbox is
   unchecked; what is sent always carries confirmed: true *)
HandleClaim(r, snap, c, userId, isConfirmed) ==
    IF DialogBlocks(isConfirmed)
    THEN UNCHANGED vars
    ELSE ClaimArrive(r, snap, c, userId, TRUE, IF isConfirmed THEN "checked" ELSE "unchecked")

(* BEGIN .. COMMIT on one connection: both writes appear together *)
ClaimCommit(r) ==
    /\ req[r].op = "claim" /\ req[r].pc = "tx"
    /\ clubs' = ClaimClub(clubs, req[r].clubId, req[r].by)
    /\ club_members' = UpsertMember(club_members, req[r].clubId, req[r].by, "president")
    /\ Respond(r, req[r], 200)
    /\ UNCHANGED pre

(* the statements of the block on separate connections *)
ClaimUpdateClub(r) ==
    /\ req[r].op = "claim" /\ req[r].pc = "tx"
    /\ clubs' = ClaimClub(clubs, req[r].clubId, req[r].by)
    /\ Goto(r, req[r], "ins")
    /\ UNCHANGED <<club_members, pre>>

ClaimUpsertMember(r) ==
    /\ req[r].op = "claim" /\ req[r].pc = "ins"
    /\ club_members' = UpsertMember(club_members, req[r].clubId, req[r].by, "president")
    /\ Respond(r, req[r], 200)
    /\ UNCHANGED <<clubs, pre>>

----
(* POST /api/clubs/[id]/join *)

JoinRole_Officer == "officer"

(* the role a join inserts *)
JoinRole == "member"

JoinStart(r, snap, c, userId) ==
    /\ Free(r)
    /\ LET rec == [Idle EXCEPT !.op = "join", !.clubId = c, !.by = userId]
       IN  IF ~clubs[c].exists THEN Respond(r, rec, 404)
           ELSE IF MemberRows(club_members, c, userId) # {} THEN Respond(r, rec, 409)
           ELSE Goto(r, rec, "ins")
    /\ pre' = Snapshot(snap)
    /\ UNCHANGED <<clubs, club_members>>

JoinInsert(r) ==
    /\ req[r].op = "join" /\ req[r].pc = "ins"
    /\ IF UniqueViolation(club_members, req[r].clubId, req[r].by)
       THEN /\ Respond(r, req[r], 500)
            /\ UNCHANGED club_members
       ELSE /\ club_members' = InsertMember(club_members, req[r].clubId, req[r].by, JoinRole)
            /\ Respond(r, req[r], 200)
    /\ UNCHANGED <<clubs, pre>>

----
(* DELETE /api/clubs/[id]/join *)

LeaveBlocked_Never(cl, c, userId) == FALSE

(* the president may not leave *)
LeaveBlocked(cl, c, userId) == cl[c].president_id = userId

LeaveStart(r, snap, c, userId) ==
    /\ Free(r)
    /\ LET rec == [Idle EXCEPT !.op = "leave", !.clubId = c, !.by = userId]
       IN  IF ~clubs[c].exists THEN Respond(r, rec, 404)
           ELSE IF LeaveBlocked(clubs, c, userId) THEN Respond(r, rec, 403)
           ELSE Goto(r, rec, "del")
    /\ pre' = Snapshot(snap)
    /\ UNCHANGED <<clubs, club_members>>

LeaveDelete(r) ==
    /\ req[r].op = "leave" /\ req[r].pc = "del"
    /\ LET rowCount == Cardinality(MemberRows(club_members, req[r].clubId, req[r].by))
       IN  /\ club_members' = DeleteMember(club_members, req[r].clubId, req[r].by)
           /\ Respond(r, req[r], IF rowCount = 0 THEN 404 ELSE 200)
    /\ UNCHANGED <<clubs, pre>>

----
(* POST /api/clubs/[id]/members/add-leader; an email names the user with that id,
   NULL is an email no user has *)

NotPresident_ClaimedOnly(cl, c, u) == cl[c].president_id # NULL /\ cl[c].president_id # u

(* presidentResult.rows[0].president_id !== addedBy (updatedBy) *)
NotPresident(cl, c, u) == cl[c].president_id # u

AddLeaderStart(r, snap, c, email, role, addedBy) ==
    /\ Free(r)
    /\ LET rec == [Idle EXCEPT !.op = "addLeader", !.clubId = c, !.by = addedBy,
                               !.target = email, !.role = role]
       IN  IF role \notin validLeaderRoles THEN Respond(r, rec, 400)
           ELSE IF ~clubs[c].exists THEN Respond(r, rec, 404)
           ELSE IF NotPresident(clubs, c, addedBy) THEN Respond(r, rec, 403)
           ELSE Goto(r, rec, "member")
    /\ pre' = Snapshot(snap)
    /\ UNCHANGED <<clubs, club_members>>

AddLeaderSelectMember(r) ==
    /\ req[r].op = "addLeader" /\ req[r].pc = "member"
    /\ IF req[r].target = NULL THEN Respond(r, req[r], 404)
       ELSE Goto(r, [req[r] EXCEPT !.found =
                        MemberRows(club_members, req[r].clubId, req[r].target) # {}], "write")
    /\ UNCHANGED <<clubs, club_members, pre>>

AddLeaderWrite(r) ==
    /\ req[r].op = "addLeader" /\ req[r].pc = "write"
    /\ IF req[r].found
       THEN /\ club_members' = UpdateRole(club_members, req[r].clubId, req[r].target, req[r].role)
            /\ Respond(r, req[r], 200)
       ELSE IF UniqueViolation(club_members, req[r].clubId, req[r].target)
       THEN /\ Respond(r, req[r], 500)
            /\ UNCHANGED club_members
       ELSE /\ club_members' = InsertMember(club_members, req[r].clubId, req[r].target, req[r].role)
            /\ Respond(r, req[r], 200)
    /\ UNCHANGED <<clubs, pre>>

----
(* PUT /api/clubs/[id]/members/[memberId]/role *)

SetPresident_Unclaim(cl, c, u) == [cl EXCEPT ![c].president_id = u, ![c].is_claimed = FALSE]

(* UPDATE clubs SET president_id = $1 WHERE id = $2 *)
SetPresident(cl, c, u) == [cl EXCEPT ![c].president_id = u]

IncomingRole_Officer == "officer"

(* the role the target of a transfer is given *)
IncomingRole == "president"

OutgoingRole_Member == "member"

(* the role the outgoing president is left with *)
OutgoingRole == "officer"

RoleStart(r, snap, c, memberId, role, updatedBy) ==
    /\ Free(r)
    /\ LET rec == [Idle EXCEPT !.op = "role", !.clubId = c, !.by = updatedBy,
                               !.target = memberId, !.role = role]
       IN  IF role \notin validRoles THEN Respond(r, rec, 400)
           ELSE IF ~clubs[c].exists THEN Respond(r, rec, 404)
           ELSE IF NotPresident(clubs, c, updatedBy) THEN Respond(r, rec, 403)
           ELSE IF role = "president" THEN Goto(r, rec, "tx")
           ELSE Goto(r, rec, "upd")
    /\ pre' = Snapshot(snap)
    /\ UNCHANGED <<clubs, club_members>>

(* the regular role update *)
RoleUpdate(r) ==
    /\ req[r].op = "role" /\ req[r].pc = "upd"
    /\ club_members' = UpdateRole(club_members, req[r].clubId, req[r].target, req[r].role)
    /\ Respond(r, req[r], 200)
    /\ UNCHANGED <<clubs, pre>>

(* BEGIN .. COMMIT on one connection: the three writes appear together *)
TransferCommit(r) ==
    /\ req[r].op = "role" /\ req[r].pc = "tx"
    /\ club_members' = UpdateRole(UpdateRole(club_members, req[r].clubId, req[r].by, OutgoingRole),
                                  req[r].clubId, req[r].target, IncomingRole)
    /\ clubs' = SetPresident(clubs, req[r].clubId, req[r].target)
    /\ Respond(r, req[r], 200)
    /\ UNCHANGED pre

(* the statements of the block on separate connections *)
TransferDemote(r) ==
    /\ req[r].op = "role" /\ req[r].pc = "tx"
    /\ club_members' = UpdateRole(club_members, req[r].clubId, req[r].by, OutgoingRole)
    /\ Goto(r, req[r], "promote")
    /\ UNCHANGED <<clubs, pre>>

TransferPromote(r) ==
    /\ req[r].op = "role" /\ req[r].pc = "promote"
    /\ club_members' = UpdateRole(club_members, req[r].clubId, req[r].target, IncomingRole)
    /\ Goto(r, req[r], "club")
    /\ UNCHANGED <<clubs, pre>>

TransferSetPresident(r) ==
    /\ req[r].op = "role" /\ req[r].pc = "club"
    /\ clubs' = SetPresident(clubs, req[r].clubId, req[r].target)
    /\ Respond(r, req[r], 200)
    /\ UNCHANGED <<club_members, pre>>

----
(* PUT /api/clubs/[id]/update: rewrites the descriptive columns of the club row
   (description, category, meeting time, location, image), which are not part of
   this state; is_claimed and president_id are not in its SET list *)
UpdateClubStart(r, snap, c) ==
    /\ Free(r)
    /\ LET rec == [Idle EXCEPT !.op = "update", !.clubId = c]
       IN  IF ~clubs[c].exists THEN Respond(r, rec, 404)
           ELSE Respond(r, rec, 200)
    /\ pre' = Snapshot(snap)
    /\ UNCHANGED <<clubs, club_members>>

----
ClaimRequest(r, snap) ==
    \E c \in ClubIds, u \in Users, confirmed \in BOOLEAN : ClaimStart(r, snap, c, u, confirmed)

DialogClaimRequest(r, snap) ==
    \E c \in ClubIds, u \in Users, isConfirmed \in BOOLEAN : HandleClaim(r, snap, c, u, isConfirmed)

JoinRequest(r, snap) ==
    \E c \in ClubIds, u \in Users : JoinStart(r, snap, c, u)

LeaveRequest(r, snap) ==
    \E c \in ClubIds, u \in Users : LeaveStart(r, snap, c, u)

AddLeaderRequest(r, snap) ==
    \E c \in ClubIds, e \in Emails, role \in RoleInputs, u \in Users :
        AddLeaderStart(r, snap, c, e, role, u)

RoleRequest(r, snap) ==
    \E c \in ClubIds, m \in Users, role \in RoleInputs, u \in Users :
        RoleStart(r, snap, c, m, role, u)

UpdateClubRequest(r, snap) ==
    \E c \in ClubIds : UpdateClubStart(r, snap, c)

(* one request at a time, each statement a step; pre is the database as the
   request found it *)
Next ==
    \/ Free("r1") /\ \E c \in ClubIds : CreateClub(c) /\ UNCHANGED nonClubVars
    \/ ClaimRequest("r1", TRUE) /\ UNCHANGED nonClubVars
    \/ DialogClaimRequest("r1", TRUE) /\ UNCHANGED nonClubVars
    \/ ClaimCommit("r1") /\ UNCHANGED nonClubVars
    \/ ClaimUpdateClub("r1") /\ UNCHANGED nonClubVars
    \/ ClaimUpsertMember("r1") /\ UNCHANGED nonClubVars
    \/ JoinRequest("r1", TRUE) /\ UNCHANGED nonClubVars
    \/ JoinInsert("r1") /\ UNCHANGED nonClubVars
    \/ LeaveRequest("r1", TRUE) /\ UNCHANGED nonClubVars
    \/ LeaveDelete("r1") /\ UNCHANGED nonClubVars
    \/ AddLeaderRequest("r1", TRUE) /\ UNCHANGED nonClubVars
    \/ AddLeaderSelectMember("r1") /\ UNCHANGED nonClubVars
    \/ AddLeaderWrite("r1") /\ UNCHANGED nonClubVars
    \/ RoleRequest("r1", TRUE) /\ UNCHANGED nonClubVars
    \/ RoleUpdate("r1") /\ UNCHANGED nonClubVars
    \/ TransferCommit("r1") /\ UNCHANGED nonClubVars
    \/ TransferDemote("r1") /\ UNCHANGED nonClubVars
    \/ TransferPromote("r1") /\ UNCHANGED nonClubVars
    \/ TransferSetPresident("r1") /\ UNCHANGED nonClubVars
    \/ UpdateClubRequest("r1", TRUE) /\ UNCHANGED nonClubVars
    \/ Release("r1") /\ UNCHANGED nonClubVars

Spec == Init /\ [][Next]_vars

(* claim and join requests in flight together, their statements interleaved *)
NextClaimRace ==
    \/ \E c \in ClubIds : CreateClub(c) /\ UNCHANGED nonClubVars
    \/ \E r \in Slots : ClaimRequest(r, FALSE) /\ UNCHANGED nonClubVars
    \/ \E r \in Slots : ClaimCommit(r) /\ UNCHANGED nonClubVars
    \/ \E r \in Slots : ClaimUpdateClub(r) /\ UNCHANGED nonClubVars
    \/ \E r \in Slots : ClaimUpsertMember(r) /\ UNCHANGED nonClubVars
    \/ \E r \in Slots : JoinRequest(r, FALSE) /\ UNCHANGED nonClubVars
    \/ \E r \in Slots : JoinInsert(r) /\ UNCHANGED nonClubVars
    \/ \E r \in Slots : Release(r) /\ UNCHANGED nonClubVars

SpecClaimRace == Init /\ [][NextClaimRace]_vars

(* a claimed club whose president and two other users are members *)
InitTransferRace ==
    /\ clubs = [c \in ClubIds |-> [exists |-> TRUE, is_claimed |-> TRUE, president_id |-> 1]]
    /\ club_members = {[club_id |-> c, user_id |-> u,
                         role |-> IF u = 1 THEN "president" ELSE "member"] :
                           c \in ClubIds, u \in Users}
    /\ req = [r \in Slots |-> Idle]
    /\ pre = NoSnap
    /\ posts = {}
    /\ LimiterInit
    /\ AuthInitLive

TransferRequest(r, snap) ==
    \E c \in ClubIds, memberId \in Users, updatedBy \in Users :
        RoleStart(r, snap, c, memberId, "president", updatedBy)

(* transfers in flight together, their statements interleaved *)
NextTransferRace ==
    \/ \E r \in Slots : TransferRequest(r, FALSE) /\ UNCHANGED nonClubVars
    \/ \E r \in Slots : TransferCommit(r) /\ UNCHANGED nonClubVars
    \/ \E r \in Slots : TransferDemote(r) /\ UNCHANGED nonClubVars
    \/ \E r \in Slots : TransferPromote(r) /\ UNCHANGED nonClubVars
    \/ \E r \in Slots : TransferSetPresident(r) /\ UNCHANGED nonClubVars
    \/ \E r \in Slots : Release(r) /\ UNCHANGED nonClubVars

SpecTransferRace == InitTransferRace /\ [][NextTransferRace]_vars

LeaderRequest(r, snap) ==
    \E c \in ClubIds, email \in Users, role \in validLeaderRoles, addedBy \in Users :
        AddLeaderStart(r, snap, c, email, role, addedBy)

(* join, claim and add-leader requests in flight together, their existence
   checks and inserts interleaved *)
NextMemberRace ==
    \/ \E c \in ClubIds : CreateClub(c) /\ UNCHANGED nonClubVars
    \/ \E r \in Slots : ClaimRequest(r, FALSE) /\ UNCHANGED nonClubVars
    \/ \E r \in Slots : ClaimCommit(r) /\ UNCHANGED nonClubVars
    \/ \E r \in Slots : ClaimUpdateClub(r) /\ UNCHANGED nonClubVars
    \/ \E r \in Slots : ClaimUpsertMember(r) /\ UNCHANGED nonClubVars
    \/ \E r \in Slots : JoinRequest(r, FALSE) /\ UNCHANGED nonClubVars
    \/ \E r \in Slots : JoinInsert(r) /\ UNCHANGED nonClubVars
    \/ \E r \in Slots : LeaderRequest(r, FALSE) /\ UNCHANGED nonClubVars
    \/ \E r \in Slots : AddLeaderSelectMember(r) /\ UNCHANGED nonClubVars
    \/ \E r \in Slots : AddLeaderWrite(r) /\ UNCHANGED nonClubVars
    \/ \E r \in Slots : Release(r) /\ UNCHANGED nonClubVars

SpecMemberRace == Init /\ [][NextMemberRace]_vars

----
(* Rate limiter: lib/security/input-validator.ts and api-middleware.ts *)

Set(map, id, v) == [i \in DOMAIN map \cup {id} |-> IF i = id THEN v ELSE map[i]]

Delete(map, id) == [i \in DOMAIN map \ {id} |-> map[i]]

PostLimits ==
    [minute |-> [max |-> MinuteMax, window |-> MinuteWindow],
     hour |-> [max |-> HourMax, window |-> HourWindow],
     day |-> [max |-> DayMax, window |-> DayWindow]]

LimitReached_OffByOne(count, max) == count > max

(* record.count >= maxRequests *)
LimitReached(count, max) == count >= max

(* if (!record || now > record.resetTime) *)
NewWindow(counts, id, t) == id \notin DOMAIN counts \/ t > counts[id].resetTime

(* checkRateLimit: the map it leaves and the value it returns *)
checkRateLimit(counts, id, maxRequests, windowMs, t) ==
    IF NewWindow(counts, id, t)
    THEN [counts |-> Set(counts, id, [count |-> 1, resetTime |-> t + windowMs]),
          allowed |-> TRUE, remaining |-> maxRequests - 1, resetTime |-> t + windowMs]
    ELSE IF LimitReached(counts[id].count, maxRequests)
    THEN [counts |-> counts,
          allowed |-> FALSE, remaining |-> 0, resetTime |-> counts[id].resetTime]
    ELSE [counts |-> Set(counts, id, [counts[id] EXCEPT !.count = @ + 1]),
          allowed |-> TRUE, remaining |-> maxRequests - (counts[id].count + 1),
          resetTime |-> counts[id].resetTime]

(* the windows of one kind that are still running at t, with the calls allowed
   in them; a window the code opens at t is added *)
Track(windows, t, opens, resetTime, allowed) ==
    LET inc == IF allowed THEN 1 ELSE 0
    IN  {[w EXCEPT !.allowed = @ + inc] : w \in {x \in windows : t <= x.resetTime}}
        \cup (IF opens THEN {[resetTime |-> resetTime, allowed |-> inc]} ELSE {})

(* withRateLimit(handler, maxRequests, windowMs): 429 without calling the
   handler when the limiter denies, else the handler's response (200) *)
withRateLimit(id, maxRequests) ==
    LET res == checkRateLimit(requestCounts, id, maxRequests, WindowMs, now)
        un == checkRateLimit(unswept.requestCounts, id, maxRequests, WindowMs, now)
    IN  /\ requestCounts' = res.counts
        /\ unswept' = [unswept EXCEPT !.requestCounts = un.counts]
        /\ opened' = [opened EXCEPT !.general =
                         Track(@, now, NewWindow(requestCounts, id, now), res.resetTime, res.allowed)]
        /\ last' = [NoCall EXCEPT !.fn = "checkRateLimit", !.maxRequests = maxRequests,
                                  !.allowed = res.allowed, !.unsweptAllowed = un.allowed,
                                  !.remaining = res.remaining, !.resetTime = res.resetTime,
                                  !.status = IF res.allowed THEN 200 ELSE 429,
                                  !.handled = res.allowed]
        /\ UNCHANGED <<now, postRateLimits>>

(* if (!record) record = { minute: { count: 0, resetTime: now + window }, ... } *)
FreshRecord(t) == [k \in Kinds |-> [count |-> 0, resetTime |-> t + PostLimits[k].window]]

(* if (now > record.<k>.resetTime) record.<k> = { count: 0, resetTime: now + window } *)
ResetExpired(record, t) ==
    [k \in Kinds |-> IF t > record[k].resetTime
                     THEN [count |-> 0, resetTime |-> t + PostLimits[k].window]
                     ELSE record[k]]

(* the first limit, in the order minute, hour, day, that is used up *)
Denying(record) ==
    IF LimitReached(record.minute.count, PostLimits.minute.max) THEN "minute"
    ELSE IF LimitReached(record.hour.count, PostLimits.hour.max) THEN "hour"
    ELSE IF LimitReached(record.day.count, PostLimits.day.max) THEN "day"
    ELSE "none"

(* checkPostRateLimit: the map it leaves and the value it returns *)
checkPostRateLimit(limits, id, t) ==
    LET record == ResetExpired(IF id \in DOMAIN limits THEN limits[id] ELSE FreshRecord(t), t)
        denied == Denying(record)
        after == IF denied = "none"
                 THEN [k \in Kinds |-> [record[k] EXCEPT !.count = @ + 1]]
                 ELSE record
    IN  [limits |-> Set(limits, id, after),
         allowed |-> denied = "none",
         remaining |-> [k \in Kinds |-> IF k = denied THEN 0
                                        ELSE PostLimits[k].max - after[k].count],
         resetTime |-> IF denied = "none" THEN after.minute.resetTime
                       ELSE after[denied].resetTime,
         opens |-> [k \in Kinds |-> id \notin DOMAIN limits \/ t > limits[id][k].resetTime],
         before |-> [k \in Kinds |-> record[k].count],
         after |-> [k \in Kinds |-> after[k].count],
         record |-> after]

(* POST /api/clubs/[id]/posts up to its rate-limit answer *)
CreatePost(id) ==
    LET res == checkPostRateLimit(postRateLimits, id, now)
        un == checkPostRateLimit(unswept.postRateLimits, id, now)
    IN  /\ postRateLimits' = res.limits
        /\ unswept' = [unswept EXCEPT !.postRateLimits = un.limits]
        /\ opened' = [k \in DOMAIN opened |->
                         IF k \in Kinds
                         THEN Track(opened[k], now, res.opens[k], res.record[k].resetTime,
                                    res.allowed)
                         ELSE opened[k]]
        /\ last' = [NoCall EXCEPT !.fn = "checkPostRateLimit",
                                  !.allowed = res.allowed, !.unsweptAllowed = un.allowed,
                                  !.remainingPost = res.remaining, !.resetTime = res.resetTime,
                                  !.status = IF res.allowed THEN 200 ELSE 429,
                                  !.handled = res.allowed,
                                  !.before = res.before, !.after = res.after]
        /\ UNCHANGED <<now, requestCounts>>

(* the setInterval callback *)
Cleanup ==
    /\ requestCounts' = [i \in {j \in DOMAIN requestCounts : ~(now > requestCounts[j].resetTime)}
                            |-> requestCounts[i]]
    /\ postRateLimits' = [i \in {j \in DOMAIN postRateLimits :
                                    ~(now > postRateLimits[j].day.resetTime)}
                             |-> postRateLimits[i]]
    /\ UNCHANGED <<now, unswept, opened, last>>

(* time passes *)
Tick ==
    /\ now < MaxTime
    /\ now' = now + 1
    /\ UNCHANGED <<requestCounts, postRateLimits, unswept, opened, last>>

NextRateLimit ==
    \/ \E id \in Identifiers, maxRequests \in 1..MaxRequests : withRateLimit(id, maxRequests)
           /\ UNCHANGED nonLimiterVars
    \/ Cleanup /\ UNCHANGED nonLimiterVars
    \/ Tick /\ UNCHANGED nonLimiterVars

SpecRateLimit == Init /\ [][NextRateLimit]_vars

NextPostRateLimit ==
    \/ \E id \in Identifiers : CreatePost(id) /\ UNCHANGED nonLimiterVars
    \/ Cleanup /\ UNCHANGED nonLimiterVars
    \/ Tick /\ UNCHANGED nonLimiterVars

SpecPostRateLimit == Init /\ [][NextPostRateLimit]_vars

----
(* Posts: POST /api/clubs/[id]/posts and DELETE /api/posts/[id] *)

(* POST /api/clubs/[id]/posts after the rate limiter has let the request
   through: members only; the new row gets a fresh id *)
PostInsert(r, snap, c, userId) ==
    /\ Free(r)
    /\ LET rec == [Idle EXCEPT !.op = "post", !.clubId = c, !.by = userId]
       IN  IF MemberRows(club_members, c, userId) = {}
           THEN /\ Respond(r, rec, 403)
                /\ UNCHANGED posts
           ELSE \E id \in PostIds :
                    /\ \A p \in posts : p.id # id
                    /\ posts' = posts \cup {[id |-> id, club_id |-> c, user_id |-> userId]}
                    /\ Respond(r, [rec EXCEPT !.postId = id], 201)
    /\ pre' = Snapshot(snap)
    /\ UNCHANGED <<clubs, club_members>>

isLeadership_AnyMember(members, c, userId) == MemberRows(members, c, userId) # {}

(* SELECT role FROM club_members WHERE club_id = $1 AND user_id = $2
   AND role IN ('president', 'vice_president', 'officer') *)
isLeadership(members, c, userId) ==
    \E m \in MemberRows(members, c, userId) : m.role \in leadershipRoles

(* DELETE /api/posts/[id]: userId check and the post SELECT *)
DeletePostStart(r, snap, postId, userId) ==
    /\ Free(r)
    /\ LET rec == [Idle EXCEPT !.op = "deletePost", !.by = userId, !.postId = postId]
       IN  IF userId = NULL THEN Respond(r, rec, 400)
           ELSE IF \A p \in posts : p.id # postId THEN Respond(r, rec, 404)
           ELSE LET post == CHOOSE p \in posts : p.id = postId
                IN  Goto(r, [rec EXCEPT !.clubId = post.club_id, !.target = post.user_id],
                         "leadership")
    /\ pre' = Snapshot(snap)
    /\ UNCHANGED <<clubs, club_members, posts>>

(* the leadership SELECT and the author-or-leadership test *)
DeletePostAuthorize(r) ==
    /\ req[r].op = "deletePost" /\ req[r].pc = "leadership"
    /\ LET isAuthor == req[r].target = req[r].by
       IN  IF ~isAuthor /\ ~isLeadership(club_members, req[r].clubId, req[r].by)
           THEN Respond(r, req[r], 403)
           ELSE Goto(r, req[r], "delete")
    /\ UNCHANGED <<clubs, club_members, posts, pre>>

(* DELETE FROM posts WHERE id = $1 *)
DeletePostDelete(r) ==
    /\ req[r].op = "deletePost" /\ req[r].pc = "delete"
    /\ posts' = {p \in posts : p.id # req[r].postId}
    /\ Respond(r, req[r], 200)
    /\ UNCHANGED <<clubs, club_members, pre>>

PostRequest(r, snap) ==
    \E c \in ClubIds, userId \in Users : PostInsert(r, snap, c, userId)

DeletePostRequest(r, snap) ==
    \E postId \in PostIds, userId \in Users \cup {NULL} : DeletePostStart(r, snap, postId, userId)

(* posts written and deleted while members join, leave and change role, one
   request at a time *)
NextPosts ==
    \/ Free("r1") /\ \E c \in ClubIds : CreateClub(c) /\ UNCHANGED nonClubVars
    \/ ClaimRequest("r1", TRUE) /\ UNCHANGED nonClubVars
    \/ ClaimCommit("r1") /\ UNCHANGED nonClubVars
    \/ JoinRequest("r1", TRUE) /\ UNCHANGED nonClubVars
    \/ JoinInsert("r1") /\ UNCHANGED nonClubVars
    \/ LeaveRequest("r1", TRUE) /\ UNCHANGED nonClubVars
    \/ LeaveDelete("r1") /\ UNCHANGED nonClubVars
    \/ RoleRequest("r1", TRUE) /\ UNCHANGED nonClubVars
    \/ RoleUpdate("r1") /\ UNCHANGED nonClubVars
    \/ TransferCommit("r1") /\ UNCHANGED nonClubVars
    \/ PostRequest("r1", TRUE) /\ UNCHANGED nonDbVars
    \/ DeletePostRequest("r1", TRUE) /\ UNCHANGED nonDbVars
    \/ DeletePostAuthorize("r1") /\ UNCHANGED nonDbVars
    \/ DeletePostDelete("r1") /\ UNCHANGED nonDbVars
    \/ Release("r1") /\ UNCHANGED nonClubVars

SpecPosts == Init /\ [][NextPosts]_vars

----
(* AuthProvider (contexts/auth-context.tsx) and MainLayout *)

(* what MainLayout renders *)
MainLayout ==
    IF isLoading THEN "loading"
    ELSE IF ~isAuthenticated THEN "login"
    ELSE IF ~hasProfile THEN "profile"
    ELSE "main"

isBerkeleyPrepEmail(email) == email \in BerkeleyPrepEmails

(* the finally block of handleAuthSuccess and the caller's statements after it *)
AuthFinish ==
    /\ authPc' = "idle"
    /\ isLoading' = FALSE
    /\ isInteractionInProgress' = FALSE
    /\ isInitialized' = TRUE

(* login() and the mount effect in demo mode *)
DemoSignIn ==
    /\ user' = DEMO_USER
    /\ isAuthenticated' = TRUE
    /\ hasProfile' = TRUE
    /\ isLoading' = FALSE
    /\ isInteractionInProgress' = FALSE

(* the mount effect: demo mode, or initializeAuth, which runs handleAuthSuccess
   for a cached account; msalInstance.initialize() may throw *)
Mount ==
    /\ ~isInitialized /\ authPc = "idle"
    /\ \/ /\ DEMO_MODE
          /\ DemoSignIn
          /\ isInitialized' = TRUE
          /\ UNCHANGED <<DEMO_MODE, accounts, dbUsers, authPc, registration>>
       \/ /\ ~DEMO_MODE
          /\ isLoading' = FALSE
          /\ isInitialized' = TRUE
          /\ UNCHANGED <<user, isAuthenticated, hasProfile, isInteractionInProgress,
                         DEMO_MODE, accounts, dbUsers, authPc, registration>>
       \/ /\ ~DEMO_MODE /\ accounts # NoUser
          /\ isInteractionInProgress' = TRUE
          /\ authPc' = "token"
          /\ UNCHANGED <<user, isAuthenticated, isLoading, hasProfile, isInitialized,
                         DEMO_MODE, accounts, dbUsers, registration>>

(* login(), offered on the login screen: demo mode, a cached account, or
   loginPopup, which gives an account or throws *)
Login ==
    /\ MainLayout = "login" /\ authPc = "idle" /\ ~isInteractionInProgress
    /\ \/ /\ DEMO_MODE
          /\ DemoSignIn
          /\ UNCHANGED <<isInitialized, DEMO_MODE, accounts, dbUsers, authPc, registration>>
       \/ /\ ~DEMO_MODE
          /\ \E account \in AccountEmails :
                /\ accounts \in {NoUser, account}
                /\ accounts' = account
          /\ isLoading' = TRUE
          /\ isInteractionInProgress' = TRUE
          /\ authPc' = "token"
          /\ UNCHANGED <<user, isAuthenticated, hasProfile, isInitialized, DEMO_MODE,
                         dbUsers, registration>>
       \/ /\ ~DEMO_MODE /\ accounts = NoUser
          /\ isLoading' = FALSE
          /\ UNCHANGED <<user, isAuthenticated, hasProfile, isInteractionInProgress,
                         isInitialized, DEMO_MODE, accounts, dbUsers, authPc, registration>>

(* logout(): nothing while an interaction is in progress *)
SignOut ==
    /\ accounts' = NoUser
    /\ user' = NoUser
    /\ isAuthenticated' = FALSE
    /\ hasProfile' = FALSE

(* the Navigation's logout button *)
Logout ==
    /\ MainLayout = "main" /\ authPc = "idle"
    /\ IF isInteractionInProgress
       THEN UNCHANGED <<user, isAuthenticated, hasProfile, accounts, isInteractionInProgress>>
       ELSE SignOut /\ isInteractionInProgress' = FALSE
    /\ registration' = NotRegistered
    /\ UNCHANGED <<isLoading, isInitialized, DEMO_MODE, dbUsers, authPc>>

(* a non-school email: alert, logout(), return.  logout() reads the
   isInteractionInProgress of the render that made the closure, so it either
   returns at once or signs out *)
RejectEmail ==
    /\ \/ SignOut
       \/ UNCHANGED <<user, isAuthenticated, hasProfile, accounts>>
    /\ AuthFinish
    /\ UNCHANGED <<DEMO_MODE, dbUsers, registration>>

(* acquireTokenSilent: a token, or it throws into the outer catch *)
AcquireToken ==
    /\ authPc = "token"
    /\ \/ /\ authPc' = "info"
          /\ UNCHANGED <<isLoading, isInteractionInProgress, isInitialized>>
       \/ AuthFinish
    /\ UNCHANGED <<user, isAuthenticated, hasProfile, DEMO_MODE, accounts, dbUsers, registration>>

(* getUserInfo and the email check; a Graph error goes to the fallback *)
GetUserInfo ==
    /\ authPc = "info"
    /\ \/ /\ isBerkeleyPrepEmail(accounts)
          /\ authPc' = "upsert"
          /\ registration' = NotRegistered
          /\ UNCHANGED <<user, isAuthenticated, isLoading, hasProfile, isInteractionInProgress,
                         isInitialized, DEMO_MODE, accounts, dbUsers>>
       \/ /\ ~isBerkeleyPrepEmail(accounts)
          /\ RejectEmail
       \/ /\ authPc' = "fallback"
          /\ UNCHANGED <<user, isAuthenticated, isLoading, hasProfile, isInteractionInProgress,
                         isInitialized, DEMO_MODE, accounts, dbUsers, registration>>
       \/ /\ AuthFinish
          /\ UNCHANGED <<user, isAuthenticated, hasProfile, DEMO_MODE, accounts, dbUsers,
                         registration>>

(* catch (graphError): the email check on account.username; the attempt ends
   when the account has no username *)
Fallback ==
    /\ authPc = "fallback"
    /\ \/ /\ isBerkeleyPrepEmail(accounts)
          /\ authPc' = "fallbackUpsert"
          /\ registration' = NotRegistered
          /\ UNCHANGED <<user, isAuthenticated, isLoading, hasProfile, isInteractionInProgress,
                         isInitialized, DEMO_MODE, accounts, dbUsers>>
       \/ /\ ~isBerkeleyPrepEmail(accounts)
          /\ RejectEmail
       \/ /\ AuthFinish
          /\ UNCHANGED <<user, isAuthenticated, hasProfile, DEMO_MODE, accounts, dbUsers,
                         registration>>

(* where a failed database step of the attempt continues *)
OnDbError(pc) == IF pc \in {"upsert", "read"} THEN "fallback" ELSE "idle"

(* upsertUserToDatabase: POST /api/users/sync answers ok, or it throws *)
UpsertUser ==
    /\ authPc \in {"upsert", "fallbackUpsert"}
    /\ \/ /\ dbUsers' = dbUsers \cup {accounts}
          /\ registration' = [upserted |-> TRUE, readBack |-> FALSE]
          /\ authPc' = IF authPc = "upsert" THEN "read" ELSE "fallbackRead"
          /\ UNCHANGED <<isLoading, isInteractionInProgress, isInitialized>>
       \/ /\ registration' = NotRegistered
          /\ UNCHANGED dbUsers
          /\ IF OnDbError(authPc) = "idle"
             THEN AuthFinish
             ELSE /\ authPc' = OnDbError(authPc)
                  /\ UNCHANGED <<isLoading, isInteractionInProgress, isInitialized>>
    /\ UNCHANGED <<user, isAuthenticated, hasProfile, DEMO_MODE, accounts>>

Retrieved_Always(databaseUser) == TRUE

(* if (databaseUser) *)
Retrieved(databaseUser) == databaseUser # NoUser

(* getUserFromDatabase and what follows: the row, or null when the request
   fails or finds no row *)
ReadUser ==
    /\ authPc \in {"read", "fallbackRead"}
    /\ \E databaseUser \in (dbUsers \cap {accounts}) \cup {NoUser} :
          IF Retrieved(databaseUser)
          THEN /\ user' = databaseUser
               /\ isAuthenticated' = TRUE
               /\ hasProfile' = TRUE
               /\ registration' = [registration EXCEPT !.readBack = databaseUser # NoUser]
               /\ AuthFinish
          ELSE /\ registration' = NotRegistered
               /\ UNCHANGED <<user, isAuthenticated, hasProfile>>
               /\ IF OnDbError(authPc) = "idle"
                  THEN AuthFinish
                  ELSE /\ authPc' = OnDbError(authPc)
                       /\ UNCHANGED <<isLoading, isInteractionInProgress, isInitialized>>
    /\ UNCHANGED <<DEMO_MODE, accounts, dbUsers>>

NextAuth ==
    \/ Mount /\ UNCHANGED nonAuthVars
    \/ Login /\ UNCHANGED nonAuthVars
    \/ Logout /\ UNCHANGED nonAuthVars
    \/ AcquireToken /\ UNCHANGED nonAuthVars
    \/ GetUserInfo /\ UNCHANGED nonAuthVars
    \/ Fallback /\ UNCHANGED nonAuthVars
    \/ UpsertUser /\ UNCHANGED nonAuthVars
    \/ ReadUser /\ UNCHANGED nonAuthVars

InitAuth == ClubInit /\ LimiterInit /\ AuthInit

SpecAuth == InitAuth /\ [][NextAuth]_vars

----
(* Properties *)

Presidents(members, c) == {m \in members : m.club_id = c /\ m.role = "president"}

Quiescent == \A r \in Slots : req[r].pc \in {"idle", "done"}

Done(r, op) == req[r].op = op /\ req[r].pc = "done"

SameAsPre == clubs = pre.clubs /\ club_members = pre.club_members

(* the request of slot r found the club present, with the caller as its president *)
ByPresident(r) ==
    /\ pre.clubs[req[r].clubId].exists
    /\ pre.clubs[req[r].clubId].president_id = req[r].by

(* C1: whenever no request is in flight, every club has at most one membership
   row with role president, and exactly one iff the club is claimed *)
C1_SinglePresident ==
    Quiescent =>
        \A c \in ClubIds :
            LET n == Cardinality(Presidents(club_members, c))
            IN  n <= 1 /\ (n = 1 <=> clubs[c].is_claimed)

(* C2: when all the requests that ran were confirmed claims of the same existing
   club and one of them succeeded, exactly one succeeded, every other one
   answered 409, the club's president is the winner and only the winner holds a
   president row *)
C2_SingleWinner ==
    LET winners == {r \in Slots : req[r].status = 200}
    IN  (/\ \A r \in Slots : Done(r, "claim") /\ req[r].confirmed /\ req[r].status # 404
         /\ winners # {})
        => /\ Cardinality(winners) = 1
           /\ \A r \in Slots \ winners : req[r].status = 409
           /\ \A w \in winners :
                /\ clubs[req[w].clubId].president_id = req[w].by
                /\ Presidents(club_members, req[w].clubId) =
                      {[club_id |-> req[w].clubId, user_id |-> req[w].by, role |-> "president"]}

(* C3: whenever no request is in flight, the user a club names as president has
   a president row in it, and every president row belongs to that user *)
C3_PresidentAgrees ==
    Quiescent =>
        \A c \in ClubIds :
            /\ clubs[c].president_id # NULL =>
                 \E m \in Presidents(club_members, c) : m.user_id = clubs[c].president_id
            /\ \A m \in Presidents(club_members, c) : m.user_id = clubs[c].president_id

(* C4: in every state a club is claimed iff its president reference is non-null *)
C4_ClaimedIffPresident ==
    \A c \in ClubIds : clubs[c].is_claimed <=> clubs[c].president_id # NULL

(* a transfer has moved the president reference of a claimed club to another user *)
C4_Witness ==
    \E r \in Slots :
        /\ Done(r, "role") /\ req[r].role = "president" /\ req[r].status = 200
        /\ req[r].target # req[r].by
        /\ clubs[req[r].clubId].is_claimed
        /\ clubs[req[r].clubId].president_id = req[r].target

(* C5: no step takes a claimed club back to unclaimed *)
C5_ClaimedNeverReverts ==
    [][\A c \in ClubIds : clubs[c].is_claimed => clubs'[c].is_claimed]_vars

(* a further claim attempt was refused on a club that was transferred after its claim *)
C5_Witness ==
    \E r \in Slots :
        /\ Done(r, "claim") /\ req[r].status = 409
        /\ clubs[req[r].clubId].is_claimed
        /\ \E m \in club_members : m.role = OutgoingRole

(* C6: a successful transfer by the president p, who has a membership row, to a
   different member t keeps the number of rows, leaves p an officer and t the
   president, and sets the club's president reference to t *)
C6_TransferPost ==
    \A r \in Slots :
        (/\ Done(r, "role") /\ req[r].role = "president" /\ req[r].status = 200
         /\ req[r].target # req[r].by
         /\ ByPresident(r)
         /\ MemberRows(pre.club_members, req[r].clubId, req[r].by) # {}
         /\ MemberRows(pre.club_members, req[r].clubId, req[r].target) # {})
        => /\ Cardinality(club_members) = Cardinality(pre.club_members)
           /\ MemberRows(club_members, req[r].clubId, req[r].by) =
                 {[club_id |-> req[r].clubId, user_id |-> req[r].by, role |-> "officer"]}
           /\ MemberRows(club_members, req[r].clubId, req[r].target) =
                 {[club_id |-> req[r].clubId, user_id |-> req[r].target, role |-> "president"]}
           /\ clubs[req[r].clubId].president_id = req[r].target

(* the president, holding the president row, has transferred to a plain member *)
C6_Witness ==
    \E r \in Slots :
        /\ Done(r, "role") /\ req[r].role = "president" /\ req[r].status = 200
        /\ req[r].target # req[r].by
        /\ ByPresident(r)
        /\ [club_id |-> req[r].clubId, user_id |-> req[r].by, role |-> "president"]
              \in pre.club_members
        /\ [club_id |-> req[r].clubId, user_id |-> req[r].target, role |-> "member"]
              \in pre.club_members
        /\ Cardinality(club_members) = 3

(* C7: a role update by the president that asks for role president is answered
   with the invalid-role error and leaves club and memberships as they were *)
C7_PresidentRoleRejected ==
    \A r \in Slots :
        (Done(r, "role") /\ req[r].role = "president" /\ ByPresident(r))
        => (req[r].status = 400 /\ SameAsPre)

(* C8: a role update by the president on themself to a non-president role fails
   and leaves club and memberships as they were *)
C8_SelfDemotionRejected ==
    \A r \in Slots :
        (/\ Done(r, "role") /\ req[r].role \in validRoles \ {"president"}
         /\ req[r].target = req[r].by
         /\ ByPresident(r))
        => (req[r].status # 200 /\ SameAsPre)

(* C9: a transfer by the president to themself is refused, not reported as
   success, and leaves club and memberships as they were *)
C9_SelfTransferRejected ==
    \A r \in Slots :
        (/\ Done(r, "role") /\ req[r].role = "president"
         /\ req[r].target = req[r].by
         /\ ByPresident(r))
        => (req[r].status # 200 /\ SameAsPre)

(* C10: a leave request by the club's president is answered 403 and leaves club
   and memberships, the president's row included, as they were *)
C10_PresidentCannotLeave ==
    \A r \in Slots :
        (Done(r, "leave") /\ ByPresident(r))
        => (req[r].status = 403 /\ SameAsPre)

(* the president, holding the president row among other members, was refused *)
C10_Witness ==
    \E r \in Slots :
        /\ Done(r, "leave") /\ ByPresident(r) /\ req[r].status = 403
        /\ [club_id |-> req[r].clubId, user_id |-> req[r].by, role |-> "president"]
              \in club_members
        /\ Cardinality(club_members) >= 2

(* C11: a transfer by the president to another user who has no membership row
   in the club fails and leaves club and memberships as they were *)
C11_TargetNotMemberRejected ==
    \A r \in Slots :
        (/\ Done(r, "role") /\ req[r].role = "president"
         /\ req[r].target # req[r].by
         /\ ByPresident(r)
         /\ MemberRows(pre.club_members, req[r].clubId, req[r].target) = {})
        => (req[r].status # 200 /\ SameAsPre)

(* the request of slot r found the club present and the caller not its president *)
ByNonPresident(r) ==
    /\ pre.clubs[req[r].clubId].exists
    /\ pre.clubs[req[r].clubId].president_id # req[r].by

(* C12: a role update or transfer (role among the valid roles) or an add-leader
   request (role officer or vice_president) whose caller is not the club's
   president, the club being claimed or not, is answered 403 and leaves club and
   memberships as they were *)
C12_NonPresidentRejected ==
    \A r \in Slots :
        /\ (Done(r, "role") /\ req[r].role \in validRoles /\ ByNonPresident(r))
           => (req[r].status = 403 /\ SameAsPre)
        /\ (Done(r, "addLeader") /\ req[r].role \in validLeaderRoles /\ ByNonPresident(r))
           => (req[r].status = 403 /\ SameAsPre)

(* a member of an unclaimed club tried to add a leader *)
C12_Witness ==
    \E r \in Slots :
        /\ Done(r, "addLeader") /\ req[r].status = 403 /\ req[r].target # NULL
        /\ clubs[req[r].clubId].exists /\ ~clubs[req[r].clubId].is_claimed
        /\ [club_id |-> req[r].clubId, user_id |-> req[r].by, role |-> "member"] \in club_members

(* C13: a confirmed claim request that finds the club already claimed is
   answered 409 and leaves club and memberships as they were; one that finds no
   such club is answered 404 *)
C13_AlreadyClaimed ==
    \A r \in Slots :
        (Done(r, "claim") /\ req[r].confirmed)
        => /\ (pre.clubs[req[r].clubId].exists /\ pre.clubs[req[r].clubId].is_claimed)
                => (req[r].status = 409 /\ SameAsPre)
           /\ ~pre.clubs[req[r].clubId].exists
                => (req[r].status = 404 /\ SameAsPre)

(* a second user's claim was refused on a club that has its president *)
C13_Witness ==
    \E r \in Slots :
        /\ Done(r, "claim") /\ req[r].confirmed /\ req[r].status = 409
        /\ clubs[req[r].clubId].president_id \notin {NULL, req[r].by}
        /\ Presidents(club_members, req[r].clubId) # {}

(* C14: a claim request without the confirmation flag is answered 400 and leaves
   club and memberships as they were, so it never claims the club; no claim
   request comes from the dialog while its checkbox is unchecked *)
C14_UnconfirmedRejected ==
    \A r \in Slots :
        /\ (req[r].op = "claim" /\ ~req[r].confirmed)
           => (req[r].pc = "done" /\ req[r].status = 400 /\ SameAsPre)
        /\ req[r].ui # "unchecked"

(* an unconfirmed claim of an existing unclaimed club with a member was refused *)
C14_Witness ==
    \E r \in Slots :
        /\ Done(r, "claim") /\ ~req[r].confirmed /\ req[r].status = 400
        /\ clubs[req[r].clubId].exists /\ ~clubs[req[r].clubId].is_claimed
        /\ MemberRows(club_members, req[r].clubId, req[r].by) # {}

(* C15: a successful claim of an unclaimed club by u leaves the club claimed with
   president u and exactly one row for u, with role president; the number of rows
   is unchanged if u had a row and one more otherwise; all other rows are as
   they were *)
C15_ClaimPost ==
    \A r \in Slots :
        (Done(r, "claim") /\ req[r].status = 200)
        => LET c == req[r].clubId
               u == req[r].by
               had == MemberRows(pre.club_members, c, u)
           IN  /\ pre.clubs[c].exists /\ ~pre.clubs[c].is_claimed
               /\ clubs[c].is_claimed
               /\ clubs[c].president_id = u
               /\ MemberRows(club_members, c, u) =
                     {[club_id |-> c, user_id |-> u, role |-> "president"]}
               /\ Cardinality(club_members) =
                     Cardinality(pre.club_members) + (IF had = {} THEN 1 ELSE 0)
               /\ club_members \ MemberRows(club_members, c, u) = pre.club_members \ had

(* a user who had joined as a member claimed the club, another member present *)
C15_Witness ==
    \E r \in Slots :
        /\ Done(r, "claim") /\ req[r].status = 200
        /\ [club_id |-> req[r].clubId, user_id |-> req[r].by, role |-> "member"]
              \in pre.club_members
        /\ Cardinality(club_members) = 2

(* a user with no row claimed the club *)
C15_WitnessNew ==
    \E r \in Slots :
        /\ Done(r, "claim") /\ req[r].status = 200
        /\ MemberRows(pre.club_members, req[r].clubId, req[r].by) = {}
        /\ Cardinality(club_members) = 2

(* C16: the two writes of a claim are one atomic unit: in no state that another
   request can read is a club claimed while the user its president reference
   names has no president membership row *)
C16_ClaimAtomic ==
    \A c \in ClubIds :
        clubs[c].is_claimed
        => [club_id |-> c, user_id |-> clubs[c].president_id, role |-> "president"]
              \in club_members

(* C17: when transfers interleave between the authorization check and the
   writes, at most one takes effect: once they have finished the club has exactly
   one president row and its user is the club's president reference *)
C17_TransferRace ==
    Quiescent
    => \A c \in ClubIds :
           \E m \in club_members :
               /\ Presidents(club_members, c) = {m}
               /\ m.user_id = clubs[c].president_id

(* C18: a join by a user with no row in an existing club adds exactly one row,
   with role member; a join by a user who has a row is answered 409 and changes
   no row *)
C18_Join ==
    \A r \in Slots :
        (Done(r, "join") /\ pre.clubs[req[r].clubId].exists)
        => LET c == req[r].clubId
               u == req[r].by
           IN  IF MemberRows(pre.club_members, c, u) = {}
               THEN /\ req[r].status = 200
                    /\ u \in Users
                    /\ club_members = pre.club_members
                          \cup {[club_id |-> c, user_id |-> u, role |-> "member"]}
                    /\ Cardinality(club_members) = Cardinality(pre.club_members) + 1
                    /\ clubs = pre.clubs
               ELSE req[r].status = 409 /\ SameAsPre

(* a user joined a claimed club that had a president; later the president's join
   was refused *)
C18_Witness ==
    \E r \in Slots :
        /\ Done(r, "join") /\ req[r].status = 409
        /\ [club_id |-> req[r].clubId, user_id |-> req[r].by, role |-> "president"]
              \in club_members
        /\ \E m \in club_members : m.role = "member" /\ m.user_id # req[r].by

(* a join added the second row of the club *)
C18_WitnessJoined ==
    \E r \in Slots :
        /\ Done(r, "join") /\ req[r].status = 200
        /\ Cardinality(pre.club_members) = 1

(* C19: in every state there is at most one membership row per club and user *)
C19_OneRowPerUser ==
    \A c \in ClubIds, u \in Users :
        Cardinality(MemberRows(club_members, c, u)) <= 1

(* an insert lost to a row that appeared after its existence check *)
C19_Witness ==
    \E r \in Slots :
        /\ req[r].pc = "done" /\ req[r].status = 500
        /\ req[r].op \in {"join", "addLeader"}
        /\ MemberRows(club_members, req[r].clubId,
                      IF req[r].op = "join" THEN req[r].by ELSE req[r].target) # {}

(* C20: a successful update by the president of another member's role to member,
   officer or vice_president changes that member's role only: the club row, the
   president's row, every other row and the number of rows stay as they were *)
C20_RoleUpdateFrame ==
    \A r \in Slots :
        (/\ Done(r, "role") /\ req[r].status = 200
         /\ req[r].role \in validRoles \ {"president"}
         /\ req[r].target # req[r].by)
        => LET c == req[r].clubId
               t == req[r].target
           IN  /\ clubs = pre.clubs
               /\ clubs[c].president_id = req[r].by
               /\ MemberRows(club_members, c, req[r].by) = MemberRows(pre.club_members, c, req[r].by)
               /\ club_members \ MemberRows(club_members, c, t)
                     = pre.club_members \ MemberRows(pre.club_members, c, t)
               /\ Cardinality(club_members) = Cardinality(pre.club_members)
               /\ \A m \in MemberRows(club_members, c, t) : m.role = req[r].role

(* the president changed a member's role while a third user was a member too *)
C20_Witness ==
    \E r \in Slots :
        /\ Done(r, "role") /\ req[r].status = 200
        /\ req[r].role = "vice_president" /\ req[r].target # req[r].by
        /\ [club_id |-> req[r].clubId, user_id |-> req[r].by, role |-> "president"]
              \in club_members
        /\ [club_id |-> req[r].clubId, user_id |-> req[r].target, role |-> "member"]
              \in pre.club_members
        /\ Cardinality(club_members) = 3

(* the states of the walk-through: club c1, alice is user 1, bob is user 2 *)
Row(u, role) == [club_id |-> "c1", user_id |-> u, role |-> role]

DbIs(cl, members, claimed, president, rows) ==
    /\ cl["c1"] = [exists |-> TRUE, is_claimed |-> claimed, president_id |-> president]
    /\ members = rows

PreIs(claimed, president, rows) == DbIs(pre.clubs, pre.club_members, claimed, president, rows)

NowIs(claimed, president, rows) == DbIs(clubs, club_members, claimed, president, rows)

Called(r, op, by, target, role) ==
    /\ Done(r, op) /\ req[r].clubId = "c1" /\ req[r].by = by
    /\ req[r].target = target /\ req[r].role = role /\ req[r].confirmed

(* C21: from an unclaimed club with no members, claim by alice, join by bob,
   setRole bob officer, transfer to bob, leave by bob, transfer back to alice give
   in order: alice president and club claimed; bob member; bob officer; bob
   president, alice officer, president reference bob; leave refused with no
   change; alice president, bob officer, president reference alice *)
C21_Walkthrough ==
    \A r \in Slots :
        /\ (Called(r, "claim", 1, NULL, "-") /\ PreIs(FALSE, NULL, {}))
           => (req[r].status = 200 /\ NowIs(TRUE, 1, {Row(1, "president")}))
        /\ (Called(r, "join", 2, NULL, "-") /\ PreIs(TRUE, 1, {Row(1, "president")}))
           => (req[r].status = 200 /\ NowIs(TRUE, 1, {Row(1, "president"), Row(2, "member")}))
        /\ (Called(r, "role", 1, 2, "officer")
              /\ PreIs(TRUE, 1, {Row(1, "president"), Row(2, "member")}))
           => (req[r].status = 200 /\ NowIs(TRUE, 1, {Row(1, "president"), Row(2, "officer")}))
        /\ (Called(r, "role", 1, 2, "president")
              /\ PreIs(TRUE, 1, {Row(1, "president"), Row(2, "officer")}))
           => (req[r].status = 200 /\ NowIs(TRUE, 2, {Row(1, "officer"), Row(2, "president")}))
        /\ (Called(r, "leave", 2, NULL, "-")
              /\ PreIs(TRUE, 2, {Row(1, "officer"), Row(2, "president")}))
           => (req[r].status = 403 /\ NowIs(TRUE, 2, {Row(1, "officer"), Row(2, "president")}))
        /\ (Called(r, "role", 2, 1, "president")
              /\ PreIs(TRUE, 2, {Row(1, "officer"), Row(2, "president")}))
           => (req[r].status = 200 /\ NowIs(TRUE, 1, {Row(1, "president"), Row(2, "officer")}))

(* the last call of the walk-through has returned: bob, president with alice as
   officer, transferred the club back to alice *)
C21_Witness ==
    \E r \in Slots :
        /\ Called(r, "role", 2, 1, "president") /\ req[r].status = 200
        /\ PreIs(TRUE, 2, {Row(1, "officer"), Row(2, "president")})
        /\ NowIs(TRUE, 1, {Row(1, "president"), Row(2, "officer")})

(* bob's leave was refused in the state the fourth call leaves *)
C21_WitnessLeave ==
    \E r \in Slots :
        /\ Called(r, "leave", 2, NULL, "-") /\ req[r].status = 403
        /\ PreIs(TRUE, 2, {Row(1, "officer"), Row(2, "president")})

(* C22: for one identifier checkPostRateLimit allows at most MinuteMax calls in a
   minute window, HourMax in an hour window and DayMax in a day window, each
   window running from the call that opened it to its reset time; a denied call
   increments none of the three counters *)
C22_PostLimits ==
    /\ \A k \in Kinds : \A w \in opened[k] : w.allowed <= PostLimits[k].max
    /\ (last.fn = "checkPostRateLimit" /\ ~last.allowed) => last.after = last.before

(* C23: checkRateLimit allows at most maxRequests calls between the start of a
   window and its reset time and denies every further call until then; the
   remaining count it returns is never negative and is maxRequests less the calls
   allowed so far in the window; a denied request is answered 429 and the
   wrapped handler does not run *)
C23_RateLimit ==
    (last.fn = "checkRateLimit")
    => /\ \A w \in opened.general :
              /\ last.allowed => w.allowed <= last.maxRequests
              /\ ~last.allowed => w.allowed >= last.maxRequests
              /\ last.allowed => last.remaining = last.maxRequests - w.allowed
       /\ Cardinality(opened.general) = 1
       /\ last.remaining >= 0
       /\ ~last.allowed => (last.status = 429 /\ ~last.handled /\ last.remaining = 0)
       /\ last.allowed => last.handled

(* a call was denied in a window that had allowed MaxRequests calls and that
   was opened after an earlier window had ended *)
C23_Witness ==
    /\ last.fn = "checkRateLimit" /\ ~last.allowed /\ last.status = 429
    /\ last.maxRequests = MaxRequests
    /\ now > WindowMs
    /\ \E w \in opened.general : w.allowed = MaxRequests /\ w.resetTime > WindowMs + 1

(* C29: running the cleanup at any moments gives the same allowed or denied
   result for every call as never running it *)
C29_CleanupInvisible ==
    last.allowed = last.unsweptAllowed

(* C26: a post is deleted only when the requesting user is its author or has a
   membership row with role president, vice_president or officer in the post's
   club when the request is made; any other requester is answered 403 and the
   post remains, so a user demoted to member or no longer a member cannot delete
   other members' posts *)
C26_DeleteAuthorized ==
    \A r \in Slots :
        Done(r, "deletePost")
        => \A p \in pre.posts :
               (p.id = req[r].postId /\ req[r].by # NULL)
               => IF \/ p.user_id = req[r].by
                     \/ \E m \in pre.club_members :
                            /\ m.club_id = p.club_id /\ m.user_id = req[r].by
                            /\ m.role \in {"president", "vice_president", "officer"}
                  THEN req[r].status = 200 /\ posts = pre.posts \ {p}
                  ELSE req[r].status = 403 /\ posts = pre.posts

(* a member who holds role 'member' in the club asked to delete another
   member's post and was refused *)
C26_Witness ==
    \E r \in Slots :
        /\ Done(r, "deletePost") /\ req[r].status = 403
        /\ \E p \in posts : p.id = req[r].postId /\ p.user_id # req[r].by
        /\ [club_id |-> req[r].clubId, user_id |-> req[r].by, role |-> "member"] \in club_members

(* an officer deleted another member's post *)
C26_WitnessLeader ==
    \E r \in Slots :
        /\ Done(r, "deletePost") /\ req[r].status = 200
        /\ \E p \in pre.posts : p.id = req[r].postId /\ p.user_id # req[r].by
        /\ [club_id |-> req[r].clubId, user_id |-> req[r].by, role |-> "officer"] \in club_members

(* C25: a leave by a user with no membership row in the club is answered 404 and
   changes nothing; a leave by a member who is not the club's president deletes
   that user's row only: the claimed flag, the president reference and every
   other row stay as they were *)
C25_Leave ==
    \A r \in Slots :
        (/\ Done(r, "leave")
         /\ pre.clubs[req[r].clubId].exists
         /\ pre.clubs[req[r].clubId].president_id # req[r].by)
        => LET c == req[r].clubId
               had == MemberRows(pre.club_members, c, req[r].by)
           IN  IF had = {}
               THEN req[r].status = 404 /\ SameAsPre
               ELSE /\ req[r].status = 200
                    /\ Cardinality(had) = 1
                    /\ club_members = pre.club_members \ had
                    /\ clubs = pre.clubs

(* an officer left a claimed club that keeps its president and another member *)
C25_Witness ==
    \E r \in Slots :
        /\ Done(r, "leave") /\ req[r].status = 200
        /\ [club_id |-> req[r].clubId, user_id |-> req[r].by, role |-> "officer"]
              \in pre.club_members
        /\ clubs[req[r].clubId].is_claimed
        /\ Cardinality(club_members) = 2

(* a user who never joined asked to leave *)
C25_WitnessNotMember ==
    \E r \in Slots :
        /\ Done(r, "leave") /\ req[r].status = 404
        /\ clubs[req[r].clubId].exists
        /\ club_members # {}

(* C27: every membership row of an unclaimed club has role member *)
C27_UnclaimedOnlyMembers ==
    \A m \in club_members : ~clubs[m.club_id].is_claimed => m.role = "member"

(* two users have joined a club nobody has claimed *)
C27_Witness ==
    \E c \in ClubIds :
        /\ clubs[c].exists /\ ~clubs[c].is_claimed
        /\ Cardinality({m \in club_members : m.club_id = c}) = 2

(* C28: add-leader by the president with role officer or vice_president, for any
   email that resolves to a user, leaves the set of president rows as it was *)
C28_AddLeaderKeepsPresidents ==
    \A r \in Slots :
        (/\ Done(r, "addLeader") /\ req[r].status = 200
         /\ req[r].role \in validLeaderRoles /\ req[r].target # NULL
         /\ ByPresident(r))
        => Presidents(club_members, req[r].clubId) = Presidents(pre.club_members, req[r].clubId)

(* C30: a role update by the president to member, officer or vice_president
   whose target has no membership row returns success, creates no row and
   changes nothing *)
C30_RoleUpdateNoRow ==
    \A r \in Slots :
        (/\ Done(r, "role") /\ ByPresident(r)
         /\ req[r].role \in validRoles \ {"president"}
         /\ MemberRows(pre.club_members, req[r].clubId, req[r].target) = {})
        => (req[r].status = 200 /\ SameAsPre)

(* the president set the role of a user who never joined, other members present *)
C30_Witness ==
    \E r \in Slots :
        /\ Done(r, "role") /\ ByPresident(r) /\ req[r].status = 200
        /\ req[r].role = "officer"
        /\ MemberRows(club_members, req[r].clubId, req[r].target) = {}
        /\ Cardinality(club_members) = 2

(* C24 as stated: the client is authenticated only after the upsert has
   succeeded and the user row has been read back; the main content is rendered
   only when authenticated *)
C24_AuthAfterRegistration ==
    /\ isAuthenticated => (registration.upserted /\ registration.readBack /\ user \in dbUsers)
    /\ MainLayout = "main" => isAuthenticated

(* C24 for a build without demo mode: the client is authenticated only
   after the upsert has succeeded and the user row has been read back, and the
   main content is rendered only when authenticated; when the upsert or the
   read-back of an attempt fails and the fallback does not complete them,
   isAuthenticated stays false *)
C24_AuthAfterRegistrationLive ==
    /\ (~DEMO_MODE /\ isAuthenticated)
       => (registration.upserted /\ registration.readBack /\ user \in dbUsers)
    /\ MainLayout = "main" => isAuthenticated

(* without demo mode the main content is shown to a user who was registered
   and read back *)
C24_Witness ==
    /\ ~DEMO_MODE /\ MainLayout = "main" /\ authPc = "idle"
    /\ user \in dbUsers /\ registration.upserted /\ registration.readBack

(* an attempt ended after its upsert had succeeded and the read-back failed:
   the login screen is shown *)
C24_WitnessFailed ==
    /\ ~DEMO_MODE /\ authPc = "idle" /\ isInitialized /\ accounts \in dbUsers
    /\ MainLayout = "login"

====
